---- MODULE Spec2Model ----
(***************************************************************************)
(* Model of BedrockAgentBlueprintsConstruct                                *)
(* (src/bin/BedrockAgentBlueprintsConstruct.ts).                           *)
(*                                                                         *)
(* The construct's constructor is a sequential program: it decides whether *)
(* an asset bucket is needed, turns every action group into an action-group*)
(* property of the agent definition (uploading file schemas on the way),   *)
(* creates the agent (and its service role when none was given) and then   *)
(* adds an invoke permission to every action's lambda function.            *)
(*                                                                         *)
(* pc is the method the constructor is about to run or is inside of; the   *)
(* two loops (map, forEach) advance one element per step.                  *)
(*                                                                         *)
(* An optional value (T | undefined) is a sequence of length at most one.  *)
(***************************************************************************)
EXTENDS Integers, Sequences, FiniteSets, TLC

VARIABLES
    props,                  \* constructor argument: agentDefinition, actionGroups
    env,                    \* process.env: CDK_DEFAULT_REGION, CDK_DEFAULT_ACCOUNT
    pc,                     \* position of the constructor
    agentDefinition,        \* this.agentDefinition
    assetManagementBucket,  \* this.assetManagementBucket (optional)
    agentServiceRole,       \* this.agentServiceRole (optional), with its policy
    agent,                  \* this.agent (optional)
    agentActionGroups,      \* local of associateActionGroupInfo: result of map so far
    i,                      \* index of the element the running loop is at
    constructs,             \* resources declared so far, in declaration order
    tempDirs,               \* directories made by mkdtempSync that still exist
    calls,                  \* methods invoked so far, in invocation order
    error                   \* the error thrown out of the constructor (optional)

vars == <<props, env, pc, agentDefinition, assetManagementBucket, agentServiceRole,
          agent, agentActionGroups, i, constructs, tempDirs, calls, error>>

----------------------------------------------------------------------------
(* Bounds and input domains *)

MaxActionGroups == 2

None == <<>>
Some(x) == <<x>>

\* JavaScript truthiness of an optional string: undefined and "" are falsy.
TruthyString(o) == o # None /\ o[1] # ""

\* JavaScript truthiness of an optional object (Buffer, Function, Role, ...).
TruthyObject(o) == o # None

\* A `${...}` template substitution of an optional string.
Interpolate(o) == IF o = None THEN "undefined" ELSE o[1]

ActionGroupNames == <<"ping", "pong", "echo", "tick">>

InlineDocument == "{type:inline}"
FileBytes == "openapi:..."
FunctionSchemaValue == "functions"

FoundationModels == {"claude", "titan"}

CallerRoleArn == "arn:aws:iam::111122223333:role/caller"

SchemaDefinitions ==
    [inlineAPISchema : {None, Some(""), Some(InlineDocument)},
     apiSchemaFile   : {None, Some(FileBytes)},
     functionSchema  : {None, Some(FunctionSchemaValue)}]

ActionAttributes == [lambdaFunc : {None, Some("lambda")}, schemaDefinition : SchemaDefinitions]

AgentActionGroup(k, a) ==
    [actionGroupName  |-> ActionGroupNames[k],
     description      |-> "description",
     actionGroupState |-> "ENABLED",
     lambdaFunc       |-> IF a.lambdaFunc = None THEN None ELSE Some(<<"lambda", ActionGroupNames[k]>>),
     schemaDefinition |-> a.schemaDefinition]

ActionGroupBatches ==
    {None} \cup
    UNION { { Some([k \in 1..n |-> AgentActionGroup(k, a[k])]) : a \in [1..n -> ActionAttributes] }
            : n \in 0..MaxActionGroups }

\* An action-group property already present in the caller's agent definition.
ExistingActionGroup(name) ==
    [actionGroupName     |-> name,
     actionGroupExecutor |-> None,
     description         |-> "existing",
     actionGroupState    |-> "ENABLED",
     apiSchema           |-> None,
     functionSchema      |-> Some(FunctionSchemaValue)]

CfnAgentProps ==
    [agentName            : {"agent"},
     foundationModel      : FoundationModels,
     agentResourceRoleArn : {None, Some(""), Some(CallerRoleArn)},
     actionGroups         : {None,
                             Some(<<ExistingActionGroup("old1"), ExistingActionGroup("old2")>>)}]

Environments ==
    [CDK_DEFAULT_REGION  : {None, Some("us-east-1")},
     CDK_DEFAULT_ACCOUNT : {None, Some("111122223333")}]

\* The environment is read by setupIAMRole and, behind its role check, by
\* addSchemaAccessForAgents only: it is varied for the definitions that name
\* no role and is the complete one for the others.
EnvironmentsFor(definition) ==
    IF definition.agentResourceRoleArn = None
    THEN Environments
    ELSE {e \in Environments : e.CDK_DEFAULT_REGION # None /\ e.CDK_DEFAULT_ACCOUNT # None}

BedrockAgentBlueprintsConstructProps ==
    [agentDefinition : CfnAgentProps, actionGroups : ActionGroupBatches]

----------------------------------------------------------------------------
(* Pure parts of the methods *)

\* Faulty variant: looks at the first action group only.
checkActionsRequireArtifacts_FirstOnly(actionGroups) ==
    IF actionGroups = None \/ actionGroups = Some(<<>>)
    THEN FALSE
    ELSE TruthyObject(actionGroups[1][1].schemaDefinition.apiSchemaFile)

\* Faulty variant: no action group is ever found to need the bucket.
checkActionsRequireArtifacts_Never(actionGroups) == FALSE

\* checkActionsRequireArtifacts: actionGroups?.some(a => a.schemaDefinition.apiSchemaFile) ?? false
checkActionsRequireArtifacts(actionGroups) ==
    IF actionGroups = None
    THEN FALSE
    ELSE \E k \in 1..Len(actionGroups[1]) :
            TruthyObject(actionGroups[1][k].schemaDefinition.apiSchemaFile)

\* Faulty variant: the final else does not throw.
getApiSchemaBranch_NoThrow(schemaDefinition) ==
    IF TruthyString(schemaDefinition.inlineAPISchema) THEN "inline"
    ELSE IF TruthyObject(schemaDefinition.apiSchemaFile) THEN "s3"
    ELSE "function"

\* Faulty variant: the schema file is tested before the inline schema.
getApiSchemaBranch_FileFirst(schemaDefinition) ==
    IF TruthyObject(schemaDefinition.apiSchemaFile) THEN "s3"
    ELSE IF TruthyString(schemaDefinition.inlineAPISchema) THEN "inline"
    ELSE IF TruthyObject(schemaDefinition.functionSchema) THEN "function"
    ELSE "throw"

\* The branch getApiSchema takes for a schema definition.
getApiSchemaBranch(schemaDefinition) ==
    IF TruthyString(schemaDefinition.inlineAPISchema) THEN "inline"
    ELSE IF TruthyObject(schemaDefinition.apiSchemaFile) THEN "s3"
    ELSE IF TruthyObject(schemaDefinition.functionSchema) THEN "function"
    ELSE "throw"

\* setupS3Bucket: the declared bucket.
setupS3Bucket ==
    [type |-> "Bucket", id |-> "AgentBlueprintAssets",
     encryption |-> "S3_MANAGED", blockPublicAccess |-> "BLOCK_ALL", enforceSSL |-> TRUE]

\* Faulty variant: every deployment goes under the same prefix.
deployAssetsToBucket_FixedPrefix(assetFiles, prefix, bucket) ==
    [type |-> "BucketDeployment", id |-> <<"AssetDeployment", "schemas">>,
     sources |-> assetFiles, destinationBucket |-> bucket, destinationKeyPrefix |-> "schemas"]

\* deployAssetsToBucket: the declared deployment.
deployAssetsToBucket(assetFiles, prefix, bucket) ==
    [type |-> "BucketDeployment", id |-> <<"AssetDeployment", prefix>>,
     sources |-> assetFiles, destinationBucket |-> bucket, destinationKeyPrefix |-> prefix]

\* uploadSchemaToS3: the S3 identifier it returns for a deployment.
S3Identifier(deploymentInfo) ==
    [s3BucketName |-> <<deploymentInfo.destinationBucket, "bucketName">>,
     s3ObjectKey  |-> <<"objectKeys", 0, deploymentInfo.id>>]

\* uploadSchemaToS3: the ARN it hands to addSchemaAccessForAgents.
S3ArtifactArn(deploymentInfo, actionGroupName) ==
    <<deploymentInfo.destinationBucket, "bucketArn", "/", actionGroupName>>

\* addSchemaAccessForAgents: the role after the call.
addSchemaAccessForAgents(role, s3ArtifactArn, environment) ==
    IF ~TruthyObject(role)
    THEN role
    ELSE Some([role[1] EXCEPT !.statements = Append(@,
            [sid        |-> "AllowAccessToActionGroupAPISchemas",
             effect     |-> "ALLOW",
             actions    |-> <<"s3:GetObject">>,
             resources  |-> <<s3ArtifactArn>>,
             conditions |-> <<"aws:ResourceAccount", environment.CDK_DEFAULT_ACCOUNT>>])])

\* action.getActionExecutor() of AgentActionGroup.
getActionExecutor(action) ==
    IF TruthyObject(action.lambdaFunc) THEN Some([lambda |-> action.lambdaFunc[1]]) ELSE None

\* getApiSchema: the schema fields spread into the action-group property.
getApiSchema(schemaDefinition, s3Identifier) ==
    CASE getApiSchemaBranch(schemaDefinition) = "inline" ->
            [apiSchema |-> Some([payload |-> Some(schemaDefinition.inlineAPISchema[1]), s3 |-> None]),
             functionSchema |-> None]
      [] getApiSchemaBranch(schemaDefinition) = "s3" ->
            [apiSchema |-> Some([payload |-> None, s3 |-> Some(s3Identifier)]),
             functionSchema |-> None]
      [] OTHER ->
            [apiSchema |-> None, functionSchema |-> schemaDefinition.functionSchema]

\* The element associateActionGroupInfo's map produces for one action.
AgentActionGroupProperty(action, schema) ==
    [actionGroupName     |-> action.actionGroupName,
     actionGroupExecutor |-> getActionExecutor(action),
     description         |-> action.description,
     actionGroupState    |-> action.actionGroupState,
     apiSchema           |-> schema.apiSchema,
     functionSchema      |-> schema.functionSchema]

\* associateActionGroupInfo: <[]>this.agentDefinition?.actionGroups || []
existingActions(definition) ==
    IF definition.actionGroups = None THEN <<>> ELSE definition.actionGroups[1]

\* Faulty variant: the existing action groups are not spread into the new list.
appendActionGroups_Replace(definition, mapped) ==
    [definition EXCEPT !.actionGroups = Some(mapped)]

\* associateActionGroupInfo: the agent definition with the mapped groups appended.
appendActionGroups(definition, mapped) ==
    [definition EXCEPT !.actionGroups = Some(existingActions(definition) \o mapped)]

\* Faulty variant: a role is set up whether or not one was given.
roleRequired_Always(definition) == TRUE

\* createBedrockAgent: whether a role has to be set up.
roleRequired(definition) == ~TruthyString(definition.agentResourceRoleArn)

\* Faulty variant: the statement allows every foundation model.
setupIAMRole_AnyModel(definition, environment) ==
    [roleArn   |-> "BedrockServiceRole.roleArn",
     assumedBy |-> [service |-> "bedrock.amazonaws.com",
                    conditions |-> <<"aws:SourceAccount", environment.CDK_DEFAULT_ACCOUNT>>],
     statements |-> <<
        [sid        |-> "AllowModelInvocationForOrchestration",
         effect     |-> "ALLOW",
         actions    |-> <<"bedrock:InvokeModel">>,
         resources  |-> << <<"arn:aws:bedrock:", Interpolate(environment.CDK_DEFAULT_REGION),
                             "::foundation-model/", "*">> >>,
         conditions |-> None] >>]

\* setupIAMRole: the role it creates, with the model invocation statement.
setupIAMRole(definition, environment) ==
    [roleArn   |-> "BedrockServiceRole.roleArn",
     assumedBy |-> [service |-> "bedrock.amazonaws.com",
                    conditions |-> <<"aws:SourceAccount", environment.CDK_DEFAULT_ACCOUNT>>],
     statements |-> <<
        [sid        |-> "AllowModelInvocationForOrchestration",
         effect     |-> "ALLOW",
         actions    |-> <<"bedrock:InvokeModel">>,
         resources  |-> << <<"arn:aws:bedrock:", Interpolate(environment.CDK_DEFAULT_REGION),
                             "::foundation-model/", definition.foundationModel>> >>,
         conditions |-> None] >>]

\* Faulty variant: the agent definition is not given the new role.
withRole_Unchanged(definition, role) == definition

\* setupIAMRole: the agent definition recreated with the new role.
withRole(definition, role) ==
    [definition EXCEPT !.agentResourceRoleArn = Some(role.roleArn)]

\* new bedrock.CfnAgent(this, `AgentBlueprint-${agentName}`, this.agentDefinition)
CfnAgent(definition) ==
    [type |-> "CfnAgent", id |-> <<"AgentBlueprint", definition.agentName>>,
     props |-> definition, attrAgentArn |-> <<"attrAgentArn", definition.agentName>>]

\* Faulty variant: the permission is not restricted to the agent.
invokePermission_AnySource(action, theAgent) ==
    [type |-> "Permission", id |-> <<"BedrockAgentInvokePermission", action.actionGroupName>>,
     func |-> action.lambdaFunc[1],
     action |-> "lambda:InvokeFunction", principal |-> "bedrock.amazonaws.com",
     sourceArn |-> <<"*">>]

\* addResourcePolicyForActions: the permission added to an action's function.
invokePermission(action, theAgent) ==
    [type |-> "Permission", id |-> <<"BedrockAgentInvokePermission", action.actionGroupName>>,
     func |-> action.lambdaFunc[1],
     action |-> "lambda:InvokeFunction", principal |-> "bedrock.amazonaws.com",
     sourceArn |-> theAgent[1].attrAgentArn]

----------------------------------------------------------------------------
(* The constructor *)

Init ==
    /\ props \in BedrockAgentBlueprintsConstructProps
    /\ env \in EnvironmentsFor(props.agentDefinition)
    /\ pc = "checkActionsRequireArtifacts"
    /\ agentDefinition = props.agentDefinition
    /\ assetManagementBucket = None
    /\ agentServiceRole = None
    /\ agent = None
    /\ agentActionGroups = <<>>
    /\ i = 1
    /\ constructs = <<>>
    /\ tempDirs = {}
    /\ calls = <<>>
    /\ error = None

\* constructor, lines 29-31: set up the bucket when an action needs it.
DecideArtifactNeed ==
    /\ pc = "checkActionsRequireArtifacts"
    /\ IF checkActionsRequireArtifacts(props.actionGroups)
       THEN /\ assetManagementBucket' = Some(setupS3Bucket.id)
            /\ constructs' = Append(constructs, setupS3Bucket)
            /\ calls' = calls \o <<"checkActionsRequireArtifacts", "setupS3Bucket">>
       ELSE /\ calls' = Append(calls, "checkActionsRequireArtifacts")
            /\ UNCHANGED <<assetManagementBucket, constructs>>
    /\ pc' = "associateActionGroupInfo"
    /\ UNCHANGED <<props, env, agentDefinition, agentServiceRole, agent,
                   agentActionGroups, i, tempDirs, error>>

\* Faulty variant: without the early return an empty list is appended.
AssociateNothing_Appends ==
    /\ pc = "associateActionGroupInfo"
    /\ props.actionGroups = None
    /\ agentDefinition' = appendActionGroups(agentDefinition, <<>>)
    /\ pc' = "createBedrockAgent"
    /\ calls' = Append(calls, "associateActionGroupInfo")
    /\ UNCHANGED <<props, env, assetManagementBucket, agentServiceRole,
                   agent, agentActionGroups, i, constructs, tempDirs, error>>

\* associateActionGroupInfo, line 113: nothing to do without action groups.
AssociateNothing ==
    /\ pc = "associateActionGroupInfo"
    /\ props.actionGroups = None
    /\ pc' = "createBedrockAgent"
    /\ calls' = Append(calls, "associateActionGroupInfo")
    /\ UNCHANGED <<props, env, agentDefinition, assetManagementBucket, agentServiceRole,
                   agent, agentActionGroups, i, constructs, tempDirs, error>>

\* associateActionGroupInfo, lines 115-123: one element of the map, whose schema
\* getApiSchema resolves (uploading it when it is a file).
MapActionGroup ==
    /\ pc = "associateActionGroupInfo"
    /\ props.actionGroups # None
    /\ i <= Len(props.actionGroups[1])
    /\ LET action == props.actionGroups[1][i]
           branch == getApiSchemaBranch(action.schemaDefinition)
           deploymentInfo == deployAssetsToBucket(
                                <<"OpenAPISchema", action.actionGroupName,
                                  action.schemaDefinition.apiSchemaFile>>,
                                action.actionGroupName, assetManagementBucket)
           schema == getApiSchema(action.schemaDefinition, S3Identifier(deploymentInfo))
       IN  /\ branch # "throw"
           /\ IF branch = "s3"
              THEN /\ tempDirs' = tempDirs \cup {action.actionGroupName}
                   /\ constructs' = Append(constructs, deploymentInfo)
                   /\ agentServiceRole' = addSchemaAccessForAgents(agentServiceRole,
                            S3ArtifactArn(deploymentInfo, action.actionGroupName), env)
                   /\ calls' = calls \o <<"getApiSchema", "uploadSchemaToS3",
                                          "deployAssetsToBucket", "addSchemaAccessForAgents">>
              ELSE /\ calls' = Append(calls, "getApiSchema")
                   /\ UNCHANGED <<tempDirs, constructs, agentServiceRole>>
           /\ agentActionGroups' = Append(agentActionGroups,
                                          AgentActionGroupProperty(action, schema))
    /\ i' = i + 1
    /\ UNCHANGED <<props, env, pc, agentDefinition, assetManagementBucket, agent, error>>

\* Faulty variant: the error is caught and the map goes on with the next element.
MapActionGroupThrows_Continues ==
    /\ pc = "associateActionGroupInfo"
    /\ props.actionGroups # None
    /\ i <= Len(props.actionGroups[1])
    /\ getApiSchemaBranch(props.actionGroups[1][i].schemaDefinition) = "throw"
    /\ error' = Some("OpenAPI schema or functionDefinition schema required for creating action group")
    /\ calls' = Append(calls, "getApiSchema")
    /\ agentActionGroups' = Append(agentActionGroups,
            AgentActionGroupProperty(props.actionGroups[1][i],
                                     [apiSchema |-> None, functionSchema |-> None]))
    /\ i' = i + 1
    /\ UNCHANGED <<props, env, pc, agentDefinition, assetManagementBucket, agentServiceRole,
                   agent, constructs, tempDirs>>

\* getApiSchema, line 162: no schema at all; the error leaves the constructor.
MapActionGroupThrows ==
    /\ pc = "associateActionGroupInfo"
    /\ props.actionGroups # None
    /\ i <= Len(props.actionGroups[1])
    /\ getApiSchemaBranch(props.actionGroups[1][i].schemaDefinition) = "throw"
    /\ pc' = "failed"
    /\ error' = Some("OpenAPI schema or functionDefinition schema required for creating action group")
    /\ calls' = Append(calls, "getApiSchema")
    /\ UNCHANGED <<props, env, agentDefinition, assetManagementBucket, agentServiceRole,
                   agent, agentActionGroups, i, constructs, tempDirs>>

\* associateActionGroupInfo, lines 126-135: append the mapped groups.
AppendActionGroups ==
    /\ pc = "associateActionGroupInfo"
    /\ props.actionGroups # None
    /\ i > Len(props.actionGroups[1])
    /\ agentDefinition' = appendActionGroups(agentDefinition, agentActionGroups)
    /\ pc' = "createBedrockAgent"
    /\ calls' = Append(calls, "associateActionGroupInfo")
    /\ UNCHANGED <<props, env, assetManagementBucket, agentServiceRole, agent,
                   agentActionGroups, i, constructs, tempDirs, error>>

\* Faulty variant: the agent is created before the role is set up.
CreateBedrockAgent_AgentFirst ==
    /\ pc = "createBedrockAgent"
    /\ agent' = Some(CfnAgent(agentDefinition))
    /\ IF roleRequired(agentDefinition)
       THEN LET role == setupIAMRole(agentDefinition, env)
            IN  /\ agentServiceRole' = Some(role)
                /\ agentDefinition' = withRole(agentDefinition, role)
                /\ constructs' = constructs \o
                        <<[type |-> "CfnAgent", id |-> CfnAgent(agentDefinition).id],
                          [type |-> "Role", id |-> "BedrockServiceRole"]>>
                /\ calls' = calls \o <<"createBedrockAgent", "setupIAMRole">>
       ELSE /\ constructs' = Append(constructs,
                    [type |-> "CfnAgent", id |-> CfnAgent(agentDefinition).id])
            /\ calls' = Append(calls, "createBedrockAgent")
            /\ UNCHANGED <<agentServiceRole, agentDefinition>>
    /\ pc' = "addResourcePolicyForActions"
    /\ i' = 1
    /\ UNCHANGED <<props, env, assetManagementBucket, agentActionGroups, tempDirs, error>>

\* createBedrockAgent, lines 42-48, with setupIAMRole when no role was given.
CreateBedrockAgent ==
    /\ pc = "createBedrockAgent"
    /\ IF roleRequired(agentDefinition)
       THEN LET role == setupIAMRole(agentDefinition, env)
                definition == withRole(agentDefinition, role)
            IN  /\ agentServiceRole' = Some(role)
                /\ agentDefinition' = definition
                /\ agent' = Some(CfnAgent(definition))
                /\ constructs' = constructs \o
                        <<[type |-> "Role", id |-> "BedrockServiceRole"],
                          [type |-> "CfnAgent", id |-> CfnAgent(definition).id]>>
                /\ calls' = calls \o <<"setupIAMRole", "createBedrockAgent">>
       ELSE /\ agent' = Some(CfnAgent(agentDefinition))
            /\ constructs' = Append(constructs,
                    [type |-> "CfnAgent", id |-> CfnAgent(agentDefinition).id])
            /\ calls' = Append(calls, "createBedrockAgent")
            /\ UNCHANGED <<agentServiceRole, agentDefinition>>
    /\ pc' = "addResourcePolicyForActions"
    /\ i' = 1
    /\ UNCHANGED <<props, env, assetManagementBucket, agentActionGroups, tempDirs, error>>

\* addResourcePolicyForActions, line 179: nothing to do without action groups.
PolicyNothing ==
    /\ pc = "addResourcePolicyForActions"
    /\ props.actionGroups = None
    /\ pc' = "done"
    /\ calls' = Append(calls, "addResourcePolicyForActions")
    /\ UNCHANGED <<props, env, agentDefinition, assetManagementBucket, agentServiceRole,
                   agent, agentActionGroups, i, constructs, tempDirs, error>>

\* addResourcePolicyForActions, lines 181-188: one element of the forEach.
AddPermission ==
    /\ pc = "addResourcePolicyForActions"
    /\ props.actionGroups # None
    /\ i <= Len(props.actionGroups[1])
    /\ LET action == props.actionGroups[1][i]
       IN  IF TruthyObject(action.lambdaFunc)
           THEN /\ constructs' = Append(constructs, invokePermission(action, agent))
                /\ calls' = Append(calls, "addPermission")
           ELSE UNCHANGED <<constructs, calls>>
    /\ i' = i + 1
    /\ UNCHANGED <<props, env, pc, agentDefinition, assetManagementBucket, agentServiceRole,
                   agent, agentActionGroups, tempDirs, error>>

\* addResourcePolicyForActions returns and with it the constructor.
PolicyDone ==
    /\ pc = "addResourcePolicyForActions"
    /\ props.actionGroups # None
    /\ i > Len(props.actionGroups[1])
    /\ pc' = "done"
    /\ calls' = Append(calls, "addResourcePolicyForActions")
    /\ UNCHANGED <<props, env, agentDefinition, assetManagementBucket, agentServiceRole,
                   agent, agentActionGroups, i, constructs, tempDirs, error>>

Next ==
    \/ DecideArtifactNeed
    \/ AssociateNothing
    \/ MapActionGroup
    \/ MapActionGroupThrows
    \/ AppendActionGroups
    \/ CreateBedrockAgent
    \/ PolicyNothing
    \/ AddPermission
    \/ PolicyDone

Spec == Init /\ [][Next]_vars

----------------------------------------------------------------------------
(* Vocabulary of the properties *)

Done == pc = "done"

CountIf(s, P(_)) == Cardinality({k \in 1..Len(s) : P(s[k])})

NumberOfCalls(name) == Cardinality({k \in 1..Len(calls) : calls[k] = name})

Declared(type) == {k \in 1..Len(constructs) : constructs[k].type = type}

\* The action groups the caller passed, as a sequence (empty when absent).
InputActionGroups == IF props.actionGroups = None THEN <<>> ELSE props.actionGroups[1]

\* An optional value the caller filled in: present, and not the empty string.
Populated(o) == o # None /\ o # Some("")

NoRoleReference == ~Populated(props.agentDefinition.agentResourceRoleArn)

IsArtifactRead(statement) == statement.actions = <<"s3:GetObject">>

IsFileFragment(fragment) == fragment.apiSchema # None /\ fragment.apiSchema[1].s3 # None

PolicyStatements == IF agentServiceRole = None THEN <<>> ELSE agentServiceRole[1].statements

EnvironmentMissing == env.CDK_DEFAULT_REGION = None \/ env.CDK_DEFAULT_ACCOUNT = None

NoSchemaVariant(action) ==
    /\ ~Populated(action.schemaDefinition.inlineAPISchema)
    /\ ~Populated(action.schemaDefinition.apiSchemaFile)
    /\ ~Populated(action.schemaDefinition.functionSchema)

\* The order of the constructor's positions.
StageRank(p) ==
    CASE p = "checkActionsRequireArtifacts" -> 1
      [] p = "associateActionGroupInfo"     -> 2
      [] p = "createBedrockAgent"           -> 3
      [] p = "addResourcePolicyForActions"  -> 4
      [] p = "done"                         -> 5
      [] OTHER                              -> 6

GrantCalls(c) ==
    Cardinality({k \in 1..Len(c) : c[k] \in {"addSchemaAccessForAgents", "addPermission"}})

----------------------------------------------------------------------------
(* Properties *)

\* C1: when the construct sets up the role itself and the constructor has
\* finished, the role carries one s3:GetObject statement per file schema that
\* was uploaded (so model invocation + artifact read = 2 statements for one
\* file schema).
C1_ArtifactReadPerFileSchema ==
    (Done /\ NoRoleReference) =>
        /\ agentServiceRole # None
        /\ CountIf(PolicyStatements, IsArtifactRead)
              = CountIf(agentActionGroups, IsFileFragment)

\* C2: the constructor's position only moves forward through the stages, and
\* a grant (invoke permission or artifact-read statement) is only attempted
\* once the agent exists.
C2_StagesInOrderGrantsAfterAgent ==
    [][ /\ StageRank(pc') >= StageRank(pc)
        /\ (GrantCalls(calls') > GrantCalls(calls) => agent # None) ]_vars

\* C3: once the need for artifacts has been decided, the asset bucket exists
\* if and only if some action group of the batch, at whatever position, has a
\* schema file; an absent or empty batch gets none, and it is declared once.
C3_BucketIffSomeSchemaFile ==
    pc # "checkActionsRequireArtifacts" =>
        LET needed == \E k \in 1..Len(InputActionGroups) :
                          InputActionGroups[k].schemaDefinition.apiSchemaFile # None
        IN  /\ (assetManagementBucket # None) <=> needed
            /\ Cardinality(Declared("Bucket")) = IF needed THEN 1 ELSE 0

C3_Witness ==
    /\ Done
    /\ assetManagementBucket # None
    /\ Len(InputActionGroups) >= 2
    /\ InputActionGroups[1].schemaDefinition.apiSchemaFile = None
    /\ InputActionGroups[2].schemaDefinition.apiSchemaFile # None

\* C4: in a finished construction setupIAMRole ran once if the definition had
\* no role reference and not at all if it had one; the role's model invocation
\* statement names one resource, the foundation-model ARN of the definition's
\* model.
C4_RoleSetUpOnceForSelectedModel ==
    Done =>
        /\ NumberOfCalls("setupIAMRole") = IF NoRoleReference THEN 1 ELSE 0
        /\ Cardinality(Declared("Role")) = NumberOfCalls("setupIAMRole")
        /\ NoRoleReference =>
              /\ agentServiceRole # None
              /\ LET statement == agentServiceRole[1].statements[1]
                 IN  /\ statement.actions = <<"bedrock:InvokeModel">>
                     /\ Len(statement.resources) = 1
                     /\ statement.resources[1][1] = "arn:aws:bedrock:"
                     /\ statement.resources[1][3] = "::foundation-model/"
                     /\ statement.resources[1][4] = props.agentDefinition.foundationModel

C4_Witness ==
    /\ Done
    /\ NoRoleReference
    /\ NumberOfCalls("setupIAMRole") = 1
    /\ props.agentDefinition.foundationModel = "titan"
    /\ Len(InputActionGroups) >= 1

\* C5: in a finished construction there is one invoke permission per action
\* group that has a lambda function, on that function, none for the others,
\* and each has the created agent's ARN as its source ARN.
C5_InvokePermissionPerFunction ==
    Done =>
        /\ Cardinality(Declared("Permission"))
              = Cardinality({k \in 1..Len(InputActionGroups) :
                                InputActionGroups[k].lambdaFunc # None})
        /\ \A k \in 1..Len(InputActionGroups) :
              InputActionGroups[k].lambdaFunc # None =>
                 Cardinality({p \in Declared("Permission") :
                                 constructs[p].func = InputActionGroups[k].lambdaFunc[1]}) = 1
        /\ \A p \in Declared("Permission") :
              /\ agent # None
              /\ constructs[p].sourceArn = agent[1].attrAgentArn
              /\ constructs[p].action = "lambda:InvokeFunction"

C5_Witness ==
    /\ Done
    /\ Len(InputActionGroups) >= 2
    /\ InputActionGroups[1].lambdaFunc = None
    /\ InputActionGroups[2].lambdaFunc # None
    /\ Cardinality(Declared("Permission")) = 1

\* C6: if some action group of the batch has no schema variant, the map never
\* gets past the first such group, the constructor never reaches agent
\* creation, the agent definition's action groups stay as the caller gave them
\* and no agent is declared; the constructor fails only with the schema error,
\* at such a group.
C6_NoSchemaFailsWithoutFragment ==
    /\ \A k \in 1..Len(InputActionGroups) :
          NoSchemaVariant(InputActionGroups[k]) =>
             /\ pc \in {"checkActionsRequireArtifacts", "associateActionGroupInfo", "failed"}
             /\ i <= k
             /\ Len(agentActionGroups) < k
             /\ agentDefinition.actionGroups = props.agentDefinition.actionGroups
             /\ agent = None
             /\ Declared("CfnAgent") = {}
    /\ pc = "failed" =>
          /\ error = Some("OpenAPI schema or functionDefinition schema required for creating action group")
          /\ NoSchemaVariant(InputActionGroups[i])
          /\ Len(agentActionGroups) = i - 1

C6_Witness ==
    /\ pc = "failed"
    /\ i = 2
    /\ Len(agentActionGroups) = 1
    /\ error # None

\* C7: when the role has to be set up and the region or the account is not
\* in the environment, the construction fails: it never gets past role set-up,
\* declares neither role nor agent, and has declared nothing when it gets there.
C7_MissingEnvironmentFailsFirst ==
    (NoRoleReference /\ EnvironmentMissing) =>
        /\ pc \notin {"addResourcePolicyForActions", "done"}
        /\ agentServiceRole = None
        /\ agent = None
        /\ pc = "createBedrockAgent" => constructs = <<>>

\* C8: with a role reference from the caller no role is declared and no
\* policy statement is added to any role, whatever the batch, and the agent
\* is created with the caller's role reference.
C8_CallerRoleUntouched ==
    ~NoRoleReference =>
        /\ agentServiceRole = None
        /\ Declared("Role") = {}
        /\ NumberOfCalls("setupIAMRole") = 0
        /\ agentDefinition.agentResourceRoleArn = props.agentDefinition.agentResourceRoleArn
        /\ agent # None =>
              agent[1].props.agentResourceRoleArn = props.agentDefinition.agentResourceRoleArn

C8_Witness ==
    /\ Done
    /\ ~NoRoleReference
    /\ agent # None
    /\ CountIf(agentActionGroups, IsFileFragment) >= 1

\* C9: once the action groups have been associated, the definition's action
\* groups are the ones the caller's definition already had, unchanged and in
\* order, followed by one property per input action group in input order; this
\* is also the list the agent is created with.
C9_ActionGroupsAppendedInOrder ==
    pc \in {"createBedrockAgent", "addResourcePolicyForActions", "done"} =>
        LET before == IF props.agentDefinition.actionGroups = None
                      THEN <<>> ELSE props.agentDefinition.actionGroups[1]
            after  == IF agentDefinition.actionGroups = None
                      THEN <<>> ELSE agentDefinition.actionGroups[1]
        IN  /\ Len(after) = Len(before) + Len(InputActionGroups)
            /\ \A k \in 1..Len(before) : after[k] = before[k]
            /\ \A k \in 1..Len(InputActionGroups) :
                  after[Len(before) + k].actionGroupName = InputActionGroups[k].actionGroupName
            /\ agent # None => agent[1].props.actionGroups = agentDefinition.actionGroups

C9_Witness ==
    /\ Done
    /\ props.agentDefinition.actionGroups # None
    /\ Len(props.agentDefinition.actionGroups[1]) = 2
    /\ Len(InputActionGroups) = 2
    /\ Len(agentDefinition.actionGroups[1]) = 4

\* C10: every action-group property the map has produced carries exactly one
\* schema representation, the first populated one of inline document, schema
\* file, function schema; an inline document is carried over unchanged; and
\* the resolver only fails on a definition with no variant populated.
C10_OneRepresentationByPriority ==
    /\ \A k \in 1..Len(agentActionGroups) :
          LET sd == InputActionGroups[k].schemaDefinition
              f  == agentActionGroups[k]
              payload  == f.apiSchema # None /\ f.apiSchema[1].payload # None
              location == f.apiSchema # None /\ f.apiSchema[1].s3 # None
              function == f.functionSchema # None
          IN  /\ Cardinality({r \in {"payload", "location", "function"} :
                     \/ r = "payload" /\ payload
                     \/ r = "location" /\ location
                     \/ r = "function" /\ function}) = 1
              /\ payload <=> Populated(sd.inlineAPISchema)
              /\ payload => f.apiSchema[1].payload = sd.inlineAPISchema
              /\ location <=> (~Populated(sd.inlineAPISchema) /\ Populated(sd.apiSchemaFile))
              /\ function => f.functionSchema = sd.functionSchema
    /\ pc = "failed" => NoSchemaVariant(InputActionGroups[i])

C10_Witness ==
    /\ Len(agentActionGroups) = 2
    /\ Populated(InputActionGroups[1].schemaDefinition.inlineAPISchema)
    /\ Populated(InputActionGroups[1].schemaDefinition.apiSchemaFile)
    /\ Populated(InputActionGroups[1].schemaDefinition.functionSchema)
    /\ ~Populated(InputActionGroups[2].schemaDefinition.inlineAPISchema)
    /\ Populated(InputActionGroups[2].schemaDefinition.apiSchemaFile)
    /\ Populated(InputActionGroups[2].schemaDefinition.functionSchema)

\* The deployments declared so far, in declaration order.
Deployments == SelectSeq(constructs, LAMBDA c : c.type = "BucketDeployment")

\* An action group whose schema is a file and not an inline document.
PublishesFile(action) ==
    /\ ~Populated(action.schemaDefinition.inlineAPISchema)
    /\ Populated(action.schemaDefinition.apiSchemaFile)

\* C11: no directory made for a deployment is left on disk once
\* deployAssetsToBucket has returned.
C11_NoStagingDirectoryLeft == tempDirs = {}

\* C12 (as claimed): once the constructor has failed nothing it declared
\* remains: no bucket, deployment, role, agent or permission.
C12_FailureLeavesNothing ==
    error # None =>
        /\ pc = "failed"
        /\ constructs = <<>>
        /\ agentServiceRole = None
        /\ agent = None

\* C12 (amended): when schema resolution throws, the constructor stops there:
\* no later step is taken and it never completes, the agent definition is as
\* the caller gave it, and no role, agent or permission has been declared; the
\* bucket and the deployments of the earlier action groups stay declared.
C12_FailureAbortsBeforeAgent ==
    error # None =>
        /\ pc = "failed"
        /\ ~ENABLED Next
        /\ agentDefinition = props.agentDefinition
        /\ agentServiceRole = None
        /\ agent = None
        /\ \A k \in 1..Len(constructs) : constructs[k].type \in {"Bucket", "BucketDeployment"}
        /\ Len(Deployments) = Cardinality({k \in 1..(i - 1) : PublishesFile(InputActionGroups[k])})
        /\ \A k \in 1..Len(calls) :
              calls[k] \notin {"createBedrockAgent", "setupIAMRole", "addPermission",
                               "addResourcePolicyForActions"}

C12_Witness ==
    /\ pc = "failed"
    /\ i = 2
    /\ Len(Deployments) = 1
    /\ Cardinality(Declared("Bucket")) = 1

\* C13: the bucket is declared at most once, and every deployment is declared
\* after the bucket and has it as its destination.
C13_BucketOnceBeforeDeployments ==
    /\ Cardinality(Declared("Bucket")) <= 1
    /\ \A d \in Declared("BucketDeployment") :
          /\ constructs[d].destinationBucket = Some(setupS3Bucket.id)
          /\ assetManagementBucket = Some(setupS3Bucket.id)
          /\ \E b \in Declared("Bucket") : b < d

C13_Witness ==
    /\ Cardinality(Declared("BucketDeployment")) = 2
    /\ Cardinality(Declared("Bucket")) = 1
    /\ constructs[1].type = "Bucket"

\* C14: an agent created by a construct that set up the role is created from
\* a definition that refers to that role; no agent is created from a
\* definition without a role reference.
C14_AgentCreatedWithRoleReference ==
    agent # None =>
        /\ Populated(agent[1].props.agentResourceRoleArn)
        /\ agentServiceRole # None =>
              agent[1].props.agentResourceRoleArn = Some(agentServiceRole[1].roleArn)
        /\ NoRoleReference => agentServiceRole # None

C14_Witness ==
    /\ agent # None
    /\ props.agentDefinition.agentResourceRoleArn = None
    /\ agentServiceRole # None
    /\ agent[1].props.agentResourceRoleArn = Some("BedrockServiceRole.roleArn")

\* C15: in a finished construction that set up the role, every action-group
\* property with an S3 schema has an s3:GetObject statement on the role whose
\* resource is that property's bucket and object key, conditioned on the
\* account.
C15_ArtifactReadNamesPublishedObject ==
    (Done /\ NoRoleReference) =>
        \A k \in 1..Len(agentActionGroups) :
            IsFileFragment(agentActionGroups[k]) =>
                LET location == agentActionGroups[k].apiSchema[1].s3[1]
                IN  \E n \in 1..Len(PolicyStatements) :
                        /\ IsArtifactRead(PolicyStatements[n])
                        /\ PolicyStatements[n].resources =
                              << <<location.s3BucketName[1], "bucketArn", "/",
                                   location.s3ObjectKey>> >>
                        /\ PolicyStatements[n].conditions =
                              <<"aws:ResourceAccount", env.CDK_DEFAULT_ACCOUNT>>

\* C16: the agent is created from the agent definition as it then is, and
\* from then on the agent definition does not change; it only ever changes
\* while the action groups are associated or the agent (with its role) is
\* created.
C16_DefinitionFrozenAfterAgent ==
    /\ [](agent # None => agent[1].props = agentDefinition)
    /\ [][ /\ agent # None => agentDefinition' = agentDefinition
           /\ agentDefinition' # agentDefinition =>
                 pc \in {"associateActionGroupInfo", "createBedrockAgent"} ]_vars

C16_Witness ==
    /\ Done
    /\ agent # None
    /\ agentDefinition # props.agentDefinition
    /\ agentServiceRole # None
    /\ Cardinality(Declared("Permission")) >= 1

\* C17: the deployments declared so far are those of the action groups mapped
\* so far that have a schema file and no inline document, one each, in input
\* order, under the group's name; there are as many as there are properties
\* with an S3 schema, and when there is one the bucket exists.
C17_OneDeploymentPerFileSchema ==
    LET mapped   == SubSeq(InputActionGroups, 1, Len(agentActionGroups))
        expected == SelectSeq(mapped, PublishesFile)
    IN  /\ Len(Deployments) = Len(expected)
        /\ \A k \in 1..Len(expected) :
              /\ Deployments[k].destinationKeyPrefix = expected[k].actionGroupName
              /\ Deployments[k].id = <<"AssetDeployment", expected[k].actionGroupName>>
        /\ Len(Deployments) = CountIf(agentActionGroups, IsFileFragment)
        /\ NumberOfCalls("deployAssetsToBucket") = Len(Deployments)
        /\ Len(Deployments) > 0 => (assetManagementBucket # None /\ Declared("Bucket") # {})

C17_Witness ==
    /\ Done
    /\ Len(InputActionGroups) = 2
    /\ Populated(InputActionGroups[1].schemaDefinition.inlineAPISchema)
    /\ Populated(InputActionGroups[1].schemaDefinition.apiSchemaFile)
    /\ PublishesFile(InputActionGroups[2])
    /\ Len(Deployments) = 1

\* C18: without an action-group list the constructor never fails and runs to
\* its end; no bucket is declared, the definition's action groups stay as the
\* caller gave them, there are no permissions and no s3:GetObject statements,
\* and at the end one agent is declared, with a role set up exactly when the
\* caller gave no role reference.
C18_NoActionGroupsStillCompletes ==
    props.actionGroups = None =>
        /\ pc # "failed"
        /\ ~Done => ENABLED Next
        /\ Declared("Bucket") = {} /\ assetManagementBucket = None
        /\ agentDefinition.actionGroups = props.agentDefinition.actionGroups
        /\ Declared("Permission") = {}
        /\ Declared("BucketDeployment") = {}
        /\ CountIf(PolicyStatements, IsArtifactRead) = 0
        /\ Done =>
              /\ Cardinality(Declared("CfnAgent")) = 1
              /\ agent # None
              /\ Cardinality(Declared("Role")) = IF NoRoleReference THEN 1 ELSE 0
              /\ (agentServiceRole # None) <=> NoRoleReference

C18_Witness ==
    /\ Done
    /\ props.actionGroups = None
    /\ props.agentDefinition.actionGroups # None
    /\ agentServiceRole # None

====
